---- MODULE Spec2Model ----
(***************************************************************************)
(* Model of xml-compiler (src/xml-compiler/src/main.rs): a recursive      *)
(* include preprocessor for XML-like text and its parallel batch driver.   *)
(*                                                                         *)
(* Text is a sequence of lexical tokens.  Every token is a string whose    *)
(* characters are those of the file; the regular expressions of main.rs    *)
(* are applied to token sequences exactly as they apply to the             *)
(* concatenated characters.  The alphabet is chosen so that the literals   *)
(* of the patterns ("<!--", "-->", "<placeholder", "</placeholder>", ">")  *)
(* can only begin and end at token boundaries:                             *)
(*    "<!" "--" ">"            pieces of comment delimiters                *)
(*    "#include file=\"r\""    the body of an include directive            *)
(*    "<placeholder" "</placeholder>"   placeholder tags (any case)        *)
(*    " " "\t" "\n" "\r"       whitespace                                  *)
(*    "<b" "</b" "<![CDATA[" "]]"  pieces of other markup                  *)
(*    anything else            ordinary text without '<', '>', '-', blank  *)
(***************************************************************************)
EXTENDS Naturals, Integers, Sequences, FiniteSets, TLC

\* ------------------------------------------------------------------ bounds
\* Longest text of a leaf include file, in tokens.
MaxLeafLen == 3
\* Most segments in a root document.
MaxRootSegs == 2
\* Most directives per file in the include-graph family.
MaxDirs == 2
\* Recursion depth at which the model stops following a cyclic include chain
\* (the program itself has no such limit).
MaxDepth == 5
\* Most files one run of the batch discovers.
MaxTasks == 2
\* Most times the program is started on the same input root.
MaxRuns == 2

\* ------------------------------------------------------------------ tokens
LT_BANG == "<!"
DASHES == "--"
GT == ">"
SP == " "
TAB == "\t"
NL == "\n"
CR == "\r"
PH_OPEN == "<placeholder"
PH_OPEN_UC == "<PLACEHOLDER"
PH_CLOSE == "</placeholder>"
PH_CLOSE_UC == "</Placeholder>"
CDATA_OPEN == "<![CDATA["
CDATA_END == "]]"

\* \s of the regex crate, restricted to the alphabet.
IsWs(t) == t \in {SP, TAB, NL, CR}

\* (?i)<placeholder and (?i)</placeholder>
IsPhOpen(t) == t \in {PH_OPEN, PH_OPEN_UC}
IsPhClose(t) == t \in {PH_CLOSE, PH_CLOSE_UC}

\* Tokens that hold the character '>' (it is always their last character).
HasGt(t) == t = GT \/ IsPhClose(t)

\* ------------------------------------------------------------------- paths
\* Directories of the input root, all at depth 1; files live at depth 2.
SubDir == "sub"
SubDir2 == "sub2"
CompiledDir == "compiled"
Dirs == {SubDir, SubDir2, CompiledDir}

\* File names that occur in the model.
RootNames == {"1_a.xml", "1_b.xml"}
PartNames == {"a.xml", "b.xml", "m.xml"}
Names == RootNames \cup PartNames

\* Path::join(dir, name) and its display.
Join(dir, name) == dir \o "/" \o name

Paths == {Join(d, n) : d \in Dirs, n \in Names}

\* Path::parent and Path::file_name.
Parent(p) == CHOOSE d \in Dirs : \E n \in Names : p = Join(d, n)
FileName(p) == CHOOSE n \in Names : \E d \in Dirs : p = Join(d, n)

\* The include references that occur in directives: a plain name, a name
\* padded with blanks inside the quotes, and a name written with a leading
\* ".\" (Windows style).
Padded(n) == " " \o n \o " "
DotBackslash(n) == ".\\" \o n
DotSlash(n) == "./" \o n
Refs == PartNames \cup RootNames \cup {Padded(n) : n \in PartNames} \cup {DotBackslash(n) : n \in PartNames}

\* str::trim on a reference.
Trim(r) == IF \E n \in Names : r = Padded(n) THEN CHOOSE n \in Names : r = Padded(n) ELSE r

\* include.replace('\\', "/") (cfg!(windows) is false).
ReplaceBackslash(r) == IF \E n \in Names : r = DotBackslash(n) THEN DotSlash(CHOOSE n \in Names : r = DotBackslash(n)) ELSE r

\* base_dir.join(normalized); the file system resolves "./n" to n.
Canonical(r) == IF \E n \in Names : r = DotSlash(n) THEN CHOOSE n \in Names : r = DotSlash(n) ELSE r
normalize_include_path(base_dir, include) == Join(base_dir, Canonical(ReplaceBackslash(include)))

\* The body of a directive, #include file="r".
IncBody(r) == "#include file=\"" \o r \o "\""
IncBodies == {IncBody(r) : r \in Refs}
RefOf(t) == CHOOSE r \in Refs : IncBody(r) = t

\* ------------------------------------------------------- pattern matchers
RECURSIVE SkipWs(_, _)
\* \s* from position i: the first position that holds no whitespace.
SkipWs(s, i) == IF i <= Len(s) /\ IsWs(s[i]) THEN SkipWs(s, i + 1) ELSE i

\* <!--\s*#include file="(.*?)"\s*--> anchored at i: the position of the
\* match's last token, or 0.  (An include body is always followed by \s*-->
\* in the texts of this model, so the lazy capture ends at its own quote.)
IncludeEndAt(s, i) ==
  LET j == SkipWs(s, i + 2)
      k == SkipWs(s, j + 1)
  IN IF /\ i + 1 <= Len(s) /\ s[i] = LT_BANG /\ s[i + 1] = DASHES
        /\ j <= Len(s) /\ s[j] \in IncBodies
        /\ k + 1 <= Len(s) /\ s[k] = DASHES /\ s[k + 1] = GT
     THEN k + 1 ELSE 0

\* The capture group of the match anchored at i.
IncludeRefAt(s, i) == RefOf(s[SkipWs(s, i + 2)])

RECURSIVE NextInclude(_, _)
\* The start of the leftmost directive at or after position i, or 0.
NextInclude(s, i) ==
  IF i > Len(s) THEN 0
  ELSE IF IncludeEndAt(s, i) # 0 THEN i ELSE NextInclude(s, i + 1)

RECURSIVE CommentClose(_, _)
\* The first position k >= i where "-->" starts, or 0.
CommentClose(s, i) ==
  IF i + 1 > Len(s) THEN 0
  ELSE IF s[i] = DASHES /\ s[i + 1] = GT THEN i ELSE CommentClose(s, i + 1)

RECURSIVE RemoveCommentsFrom(_, _)
RemoveCommentsFrom(s, i) ==
  IF i > Len(s) THEN <<>>
  ELSE IF i + 1 <= Len(s) /\ s[i] = LT_BANG /\ s[i + 1] = DASHES
       THEN LET c == CommentClose(s, i + 2)
            IN IF c = 0 THEN SubSeq(s, i, Len(s)) ELSE RemoveCommentsFrom(s, c + 2)
       ELSE <<s[i]>> \o RemoveCommentsFrom(s, i + 1)

\* Regex (?s)<!--.*?--> replaced by "".
remove_comments(input) == RemoveCommentsFrom(input, 1)

RECURSIVE FirstGt(_, _)
\* [^>]*> from position i: the position of the first token holding '>', or 0.
FirstGt(s, i) ==
  IF i > Len(s) THEN 0 ELSE IF HasGt(s[i]) THEN i ELSE FirstGt(s, i + 1)

RECURSIVE FirstPhClose(_, _)
FirstPhClose(s, i) ==
  IF i > Len(s) THEN 0 ELSE IF IsPhClose(s[i]) THEN i ELSE FirstPhClose(s, i + 1)

RECURSIVE RemovePlaceholdersFrom(_, _)
RemovePlaceholdersFrom(s, i) ==
  IF i > Len(s) THEN <<>>
  ELSE LET j == IF IsPhOpen(s[i]) THEN FirstGt(s, i + 1) ELSE 0
           k == IF j = 0 THEN 0 ELSE FirstPhClose(s, j + 1)
       IN IF k = 0 THEN <<s[i]>> \o RemovePlaceholdersFrom(s, i + 1)
          ELSE SubSeq(s, j + 1, k - 1) \o RemovePlaceholdersFrom(s, k + 1)

\* Regex (?is)<placeholder[^>]*>(.*?)</placeholder> replaced by "$1".
remove_placeholders(input) == RemovePlaceholdersFrom(input, 1)

\* temp.replace('\n', "").replace('\r', "")
DropNewlines(s) == SelectSeq(s, LAMBDA t : t # NL /\ t # CR)

RECURSIVE CollapseWsFrom(_, _)
\* Regex \s{2,} replaced by " ".
CollapseWsFrom(s, i) ==
  IF i > Len(s) THEN <<>>
  ELSE IF IsWs(s[i])
       THEN LET e == SkipWs(s, i)
            IN (IF e - i >= 2 THEN <<SP>> ELSE <<s[i]>>) \o CollapseWsFrom(s, e)
       ELSE <<s[i]>> \o CollapseWsFrom(s, i + 1)

strip_comments_and_format_spaces(input) ==
  CollapseWsFrom(DropNewlines(remove_comments(input)), 1)

\* ------------------------------------------------------------ the expander
\* The text of an io::Error of fs::read_to_string.
ReadError == "stream did not contain valid UTF-8"

\* Mutant of MissingMarker: the marker without the path.
MissingMarkerNoPath(p) == <<LT_BANG, DASHES, SP, "Include not found:", SP, DASHES, GT>>

\* format!("<!-- Include not found: {} -->", include_path.display())
MissingMarker(p) == <<LT_BANG, DASHES, SP, "Include not found:", SP, p, SP, DASHES, GT>>

\* format!("<!-- Error including {}: {} -->", include_path.display(), err)
ErrorMarker(p, err) == <<LT_BANG, DASHES, SP, "Error including", SP, p \o ":", SP, err, SP, DASHES, GT>>

\* The callback's treatment of the text a nested call returned.
IncludedText(included_content) ==
  strip_comments_and_format_spaces(remove_placeholders(included_content))

\* Mutant of Splice: the root branch splices the bare text.
SpliceBare(inner, is_root) == inner

\* if is_root { format!("<![CDATA[\n{}\n]]>", inner) } else { inner }
Splice(inner, is_root) ==
  IF is_root THEN <<CDATA_OPEN, NL>> \o inner \o <<NL, CDATA_END, GT>> ELSE inner

\* Mutant of FinalText: the root is cleaned like an included file.
FinalTextAlwaysClean(is_root, replaced) == remove_comments(remove_placeholders(replaced))

\* The value expand_includes returns once every directive is replaced.
FinalText(is_root, replaced) ==
  IF is_root THEN replaced ELSE remove_comments(remove_placeholders(replaced))

\* Mutant of ScanResume: the scan starts over after every replacement.
ScanRestart(e) == 1

\* Where replace_all resumes its scan after a match that ends at e.
ScanResume(e) == e + 1

VARIABLES
  fs,       \* the file system: path -> [st, text]
  log,      \* processing.log: the chunks written to it, in order
  logLock,  \* the holder of the LOG_FILE mutex, or "none"
  tasks,    \* the worker tasks of the current run: root file -> task
  main,     \* the main thread: [pc, logq, lpart]
  run,      \* how many times the program was started
  prev,     \* the file system when the current run started
  wfail     \* how fs::write fails for each root file: "no", "create", "write"

vars == <<fs, log, logLock, tasks, main, run, prev, wfail>>

Missing == [st |-> "missing", text |-> <<>>]
Unreadable == [st |-> "unreadable", text |-> <<>>]
File(text) == [st |-> "file", text |-> text]

\* Mutant of Exists: a file whose expansion is in progress counts as missing
\* (a cycle guard the program does not have).
ExistsUnlessActive(p) ==
  /\ fs[p].st # "missing"
  /\ \A t \in DOMAIN tasks : \A k \in 1..Len(tasks[t].stack) : tasks[t].stack[k].path # p

\* Path::exists
Exists(p) == fs[p].st # "missing"

\* One invocation of expand_includes: the file, the is_root flag, whether the
\* file is read yet, its content, the scan position of replace_all, the start
\* of the match the callback is running for (at, 0 outside the callback), the
\* output built so far, and the positions of the directives the call chain
\* is inside of (cp, used to tell invocations apart in the log).
NewFrame(p, is_root, cp) ==
  [path |-> p, is_root |-> is_root, st |-> "call", content |-> <<>>, pos |-> 1, at |-> 0, out |-> <<>>, cp |-> cp]

NoResult == [ok |-> FALSE, text |-> <<>>]

\* The closure of files.par_iter().for_each for one file.
NewTask(file) ==
  [pc |-> "expand", stack |-> <<NewFrame(file, TRUE, <<>>)>>, ret |-> NoResult, logq |-> <<>>, lpart |-> 0]

\* A log entry: who writes it, its message, the path in it, and the
\* directive it is about (tag).  The timestamp is left out.
Entry(who, kind, p, tag) == [who |-> who, kind |-> kind, path |-> p, tag |-> tag]

\* One write(2) on the log file.
Chunk(entry, part) == [who |-> entry.who, kind |-> entry.kind, path |-> entry.path, tag |-> entry.tag, part |-> part]

\* The frame once its callback has started for the match at position i.
InCallback(frame, i) == [frame EXCEPT !.at = i]

\* The caller's frame after the callback returned `repl` for its match: the
\* text before the match and the replacement are appended to the output.
Resume(caller, repl) ==
  [caller EXCEPT !.out = caller.out \o SubSeq(caller.content, caller.pos, caller.at - 1) \o repl,
                 !.pos = ScanResume(IncludeEndAt(caller.content, caller.at)),
                 !.at = 0]

\* The tag of the directive the caller's callback is running for.
DirectiveTag(caller) == caller.cp \o <<caller.at>>

Top(t) == tasks[t].stack[Len(tasks[t].stack)]
Depth(t) == Len(tasks[t].stack)
Below(t) == SubSeq(tasks[t].stack, 1, Depth(t) - 1)

\* The stack once the top frame has ended and its caller took `repl`.
Returned(t, repl) ==
  SubSeq(tasks[t].stack, 1, Depth(t) - 2) \o <<Resume(tasks[t].stack[Depth(t) - 1], repl)>>

Running(t) == tasks[t].pc = "expand" /\ tasks[t].logq = <<>> /\ Depth(t) > 0

\* fs::read_to_string(file_path)? at the start of expand_includes, and what an
\* Err does to the caller (the callback's Err arm, or the driver's).
Read(t) ==
  /\ Running(t) /\ Top(t).st = "call"
  /\ IF fs[Top(t).path].st = "file"
     THEN tasks' = [tasks EXCEPT ![t].stack = Below(t) \o
                      <<[Top(t) EXCEPT !.st = "scan", !.content = fs[Top(t).path].text]>>]
     ELSE IF Depth(t) = 1
     THEN tasks' = [tasks EXCEPT ![t].stack = <<>>, ![t].pc = "done",
                      ![t].logq = <<Entry(t, "Error processing", t, <<>>)>>]
     ELSE tasks' = [tasks EXCEPT
                      ![t].stack = Returned(t, ErrorMarker(Top(t).path, ReadError)),
                      ![t].logq = <<Entry(t, "Error including", Top(t).path, Top(t).cp)>>]
  /\ UNCHANGED <<fs, log, logLock, main, run, prev, wfail>>

\* The replace_all callback up to the recursive call: resolve the path, and
\* either report it missing or call expand_includes(&include_path, false).
\* The call is followed only while the stack is below MaxDepth frames.
Directive(t) ==
  /\ Running(t) /\ Top(t).st = "scan"
  /\ \E i \in {NextInclude(Top(t).content, Top(t).pos)} :
       /\ i # 0
       /\ \E include_path \in {normalize_include_path(Parent(Top(t).path), Trim(IncludeRefAt(Top(t).content, i)))},
             caller \in {InCallback(Top(t), i)} :
            IF ~Exists(include_path)
            THEN tasks' = [tasks EXCEPT
                             ![t].stack = Below(t) \o <<Resume(caller, MissingMarker(include_path))>>,
                             ![t].logq = <<Entry(t, "Missing include", include_path, DirectiveTag(caller))>>]
            ELSE /\ Depth(t) < MaxDepth
                 /\ tasks' = [tasks EXCEPT ![t].stack = Below(t) \o
                                <<caller, NewFrame(include_path, FALSE, DirectiveTag(caller))>>]
  /\ UNCHANGED <<fs, log, logLock, main, run, prev, wfail>>

\* The end of expand_includes, and the Ok arm of the caller's callback.
Return(t) ==
  /\ Running(t) /\ Top(t).st = "scan"
  /\ NextInclude(Top(t).content, Top(t).pos) = 0
  /\ \E replaced \in {Top(t).out \o SubSeq(Top(t).content, Top(t).pos, Len(Top(t).content))} :
       \E result \in {FinalText(Top(t).is_root, replaced)} :
         IF Depth(t) = 1
         THEN tasks' = [tasks EXCEPT ![t].stack = <<>>, ![t].pc = "write",
                          ![t].ret = [ok |-> TRUE, text |-> result]]
         ELSE tasks' = [tasks EXCEPT
                          ![t].stack = Returned(t, Splice(IncludedText(result), tasks[t].stack[Depth(t) - 1].is_root)),
                          ![t].logq = <<Entry(t, "Included", Top(t).path, Top(t).cp)>>]
  /\ UNCHANGED <<fs, log, logLock, main, run, prev, wfail>>

\* ----------------------------------------------------------------- the log
\* Mutant of LockAvailable: the log is written without taking the mutex.
LockAlways(w) == TRUE

\* LOG_FILE.lock() succeeds for w.
LockAvailable(w) == logLock = "none"

\* log_message, first half: take the mutex and write the entry.
LogBegin(t) ==
  /\ tasks[t].logq # <<>> /\ tasks[t].lpart = 0
  /\ LockAvailable(t)
  /\ logLock' = t
  /\ log' = Append(log, Chunk(Head(tasks[t].logq), "text"))
  /\ tasks' = [tasks EXCEPT ![t].lpart = 1]
  /\ UNCHANGED <<fs, main, run, prev, wfail>>

\* log_message, second half: write the newline and drop the guard.
LogEnd(t) ==
  /\ tasks[t].logq # <<>> /\ tasks[t].lpart = 1
  /\ log' = Append(log, Chunk(Head(tasks[t].logq), "nl"))
  /\ logLock' = "none"
  /\ tasks' = [tasks EXCEPT ![t].logq = Tail(tasks[t].logq), ![t].lpart = 0]
  /\ UNCHANGED <<fs, main, run, prev, wfail>>

\* ------------------------------------------------ inputs of the expander
RootPath == Join(SubDir, "1_a.xml")
APath == Join(SubDir, "a.xml")
BPath == Join(SubDir, "b.xml")
MPath == Join(SubDir, "m.xml")

\* <!--#include file="r"--> and the same with whitespace around the body.
Dir(r) == <<LT_BANG, DASHES, IncBody(r), DASHES, GT>>
DirWs(r) == <<LT_BANG, DASHES, SP, IncBody(r), NL, DASHES, GT>>
Comment == <<LT_BANG, DASHES, "c", DASHES, GT>>
PhBlock == <<PH_OPEN, GT, "x", PH_CLOSE>>

RECURSIVE Flatten(_)
Flatten(ss) == IF ss = <<>> THEN <<>> ELSE Head(ss) \o Flatten(Tail(ss))

SeqsUpTo(S, n) == UNION {[1..k -> S] : k \in 0..n}

\* Root documents: up to MaxRootSegs segments.
RootSegs ==
  { Dir("a.xml"), Dir("m.xml"), DirWs(Padded("b.xml")), Dir(DotBackslash("a.xml")),
    Comment, PhBlock, <<SP, NL, SP>>, <<"x">>,
    <<LT_BANG, DASHES>>, <<DASHES, GT>>, <<PH_OPEN_UC, GT>>, <<PH_CLOSE>> }
RootTexts == {Flatten(ss) : ss \in SeqsUpTo(RootSegs, MaxRootSegs)}

\* part.xml of the spec's scenario: <placeholder><b>hi</b></placeholder>
PartHi == <<PH_OPEN, GT, "<b", GT, "hi", "</b", GT, PH_CLOSE>>
PartMixed == <<"y", NL, SP, SP>> \o Comment \o Dir("b.xml") \o Dir("m.xml") \o <<TAB, "z">>
LeafMixed == <<"w", SP, CR, NL, SP, "v">>

\* Leaf files: every text of up to MaxLeafLen tokens without a directive.
LeafAlphabet == {LT_BANG, DASHES, GT, SP, NL, PH_OPEN, PH_CLOSE, "x"}
LeafTexts == SeqsUpTo(LeafAlphabet, MaxLeafLen)
NestRoot == <<"p">> \o Comment \o Dir("a.xml") \o PhBlock
OnlyB == Dir("b.xml")
AroundB == <<"y", NL>> \o Dir("b.xml") \o <<NL, "z">>

\* Include graphs: files that hold directives only.
DirTexts(targets) == {Flatten(ss) : ss \in SeqsUpTo({Dir(r) : r \in targets}, MaxDirs)}

FsWith(r, a, b) ==
  [p \in Paths |-> IF p = RootPath THEN r ELSE IF p = APath THEN a ELSE IF p = BPath THEN b ELSE Missing]

\* The families of inputs: a varied root over a few parts; a varied leaf two
\* levels down; a varied include graph (cycles included).
RootFamily ==
  { FsWith(r, a, b) :
      r \in {File(x) : x \in RootTexts} \cup {Unreadable},
      a \in {Missing, Unreadable, File(PartHi), File(PartMixed)},
      b \in {Missing, File(LeafMixed)} }
LeafFamily ==
  { FsWith(File(NestRoot), File(a), File(b)) : a \in {OnlyB, AroundB}, b \in LeafTexts }
GraphFamily ==
  { FsWith(File(r), a, b) :
      r \in DirTexts({"a.xml", "m.xml"}),
      a \in {File(x) : x \in DirTexts({"b.xml", "m.xml", "a.xml"})} \cup {Missing, Unreadable},
      b \in {Unreadable, File(<<"k">>), File(Dir("a.xml")), File(Dir("1_a.xml")), File(Dir("m.xml"))} }

IdleMain == [pc |-> "par", logq |-> <<>>, lpart |-> 0]

\* One call expand_includes(RootPath, true) on a file system F.
ExpandOn(F) ==
  /\ fs = F /\ prev = F
  /\ log = <<>> /\ logLock = "none"
  /\ tasks = [t \in {RootPath} |-> NewTask(t)]
  /\ main = IdleMain
  /\ run = 1
  /\ wfail = [p \in Paths |-> "no"]

InitExpand == \E F \in RootFamily \cup LeafFamily \cup GraphFamily : ExpandOn(F)

ReadStep == \E t \in DOMAIN tasks : Read(t)
DirectiveStep == \E t \in DOMAIN tasks : Directive(t)
ReturnStep == \E t \in DOMAIN tasks : Return(t)
LogBeginStep == \E t \in DOMAIN tasks : LogBegin(t)
LogEndStep == \E t \in DOMAIN tasks : LogEnd(t)

NextExpand == ReadStep \/ DirectiveStep \/ ReturnStep \/ LogBeginStep \/ LogEndStep

SpecExpand == InitExpand /\ [][NextExpand]_vars

\* The include graphs alone; the thread that runs the expansion keeps running.
InitCycle == \E F \in GraphFamily : ExpandOn(F)
SpecCycle == InitCycle /\ [][NextExpand]_vars /\ WF_vars(NextExpand)

\* -------------------------------------------------------- the batch driver
\* Regex ^\d_.*\.xml$ on a file name (the names of the model are listed).
FileReMatches(name) == name \in RootNames

\* WalkDir::new(base_dir).min_depth(2).max_depth(2), files only, filtered by
\* the name pattern.  Every path of the model is at depth 2.
Discover(F) == {p \in Paths : F[p].st # "missing" /\ FileReMatches(FileName(p))}

\* output_dir.join(file.file_name().unwrap()), with output_dir = <root>/compiled
OutPath(file) == Join(CompiledDir, FileName(file))

\* What a write of `new` at offset 0 leaves of a file that holds `old`.
Overwrite(old, new) == new \o SubSeq(old, Len(new) + 1, Len(old))

\* fs::write, first half: File::create (create or truncate).
WriteCreate(t) ==
  /\ tasks[t].pc = "write" /\ tasks[t].logq = <<>>
  /\ IF wfail[t] = "create"
     THEN /\ tasks' = [tasks EXCEPT ![t].pc = "done",
                         ![t].logq = <<Entry(t, "Error writing", OutPath(t), <<>>)>>]
          /\ fs' = fs
     ELSE /\ tasks' = [tasks EXCEPT ![t].pc = "writing"]
          /\ fs' = [fs EXCEPT ![OutPath(t)] = File(<<>>)]
  /\ UNCHANGED <<log, logLock, main, run, prev, wfail>>

\* fs::write, second half: write_all at offset 0 of the handle, which may
\* fail after any part of the text is written; then the driver's log entry.
WriteAll(t) ==
  /\ tasks[t].pc = "writing"
  /\ LET text == tasks[t].ret.text
         old == fs[OutPath(t)].text
     IN IF wfail[t] = "write" /\ text # <<>>
        THEN \E k \in 0..(Len(text) - 1) :
               /\ fs' = [fs EXCEPT ![OutPath(t)] = File(Overwrite(old, SubSeq(text, 1, k)))]
               /\ tasks' = [tasks EXCEPT ![t].pc = "done",
                              ![t].logq = <<Entry(t, "Error writing", OutPath(t), <<>>)>>]
        ELSE /\ fs' = [fs EXCEPT ![OutPath(t)] = File(Overwrite(old, text))]
             /\ tasks' = [tasks EXCEPT ![t].pc = "done",
                            ![t].logq = <<Entry(t, "Processed", t, <<>>)>>]
  /\ UNCHANGED <<log, logLock, main, run, prev, wfail>>

\* The chunks log_section writes (a rule, the title and its newline, a rule)
\* and those log_message writes (the entry and its newline).
Parts(entry) ==
  IF entry.kind \in {"Starting processing", "Processing complete"}
  THEN <<"rule", "title", "nl", "rule">> ELSE <<"text", "nl">>

NoTasks == [t \in {} |-> NewTask(t)]

\* main up to log_section("Starting processing in ..."); the first use of
\* LOG_FILE opens processing.log with truncate.
Start ==
  /\ main.pc = "start"
  /\ log' = <<>>
  /\ main' = [pc |-> "mkdir", logq |-> <<Entry("main", "Starting processing", "", <<>>)>>, lpart |-> 0]
  /\ UNCHANGED <<fs, logLock, tasks, run, prev, wfail>>

\* log_section / log_message on the main thread: lock, then the first chunk.
MainLogBegin ==
  /\ main.logq # <<>> /\ main.lpart = 0
  /\ LockAvailable("main")
  /\ logLock' = "main"
  /\ log' = Append(log, Chunk(Head(main.logq), Parts(Head(main.logq))[1]))
  /\ main' = [main EXCEPT !.lpart = 1]
  /\ UNCHANGED <<fs, tasks, run, prev, wfail>>

\* The next chunk; the guard is dropped after the last one.
MainLogStep ==
  /\ main.logq # <<>> /\ main.lpart >= 1
  /\ LET parts == Parts(Head(main.logq))
         last == main.lpart + 1 = Len(parts)
     IN /\ log' = Append(log, Chunk(Head(main.logq), parts[main.lpart + 1]))
        /\ logLock' = IF last THEN "none" ELSE logLock
        /\ main' = IF last THEN [main EXCEPT !.logq = Tail(main.logq), !.lpart = 0]
                   ELSE [main EXCEPT !.lpart = main.lpart + 1]
  /\ UNCHANGED <<fs, tasks, run, prev, wfail>>

\* fs::create_dir_all(output_dir)? succeeds.
CreateDir ==
  /\ main.pc = "mkdir" /\ main.logq = <<>>
  /\ main' = [main EXCEPT !.pc = "walk"]
  /\ UNCHANGED <<fs, log, logLock, tasks, run, prev, wfail>>

\* fs::create_dir_all(output_dir)? fails: process_xml_files returns the error.
CreateDirFails ==
  /\ main.pc = "mkdir" /\ main.logq = <<>>
  /\ main' = [main EXCEPT !.pc = "failed"]
  /\ UNCHANGED <<fs, log, logLock, tasks, run, prev, wfail>>

\* The WalkDir pass, the "No XML files" entry, and the start of par_iter.
Walk ==
  /\ main.pc = "walk"
  /\ tasks' = [t \in Discover(fs) |-> NewTask(t)]
  /\ main' = [main EXCEPT !.pc = "par",
                !.logq = IF Discover(fs) = {}
                         THEN <<Entry("main", "No XML files found to process.", "", <<>>)>>
                         ELSE <<>>]
  /\ UNCHANGED <<fs, log, logLock, run, prev, wfail>>

\* for_each returns when every closure has ended; process_xml_files returns
\* Ok(()) and main logs the closing section.
JoinAll ==
  /\ main.pc = "par" /\ main.logq = <<>>
  /\ \A t \in DOMAIN tasks : tasks[t].pc = "done" /\ tasks[t].logq = <<>>
  /\ main' = [main EXCEPT !.pc = "finish",
                !.logq = <<Entry("main", "Processing complete", "", <<>>)>>]
  /\ UNCHANGED <<fs, log, logLock, tasks, run, prev, wfail>>

\* main returns Ok(()).
Exit ==
  /\ main.pc = "finish" /\ main.logq = <<>>
  /\ main' = [main EXCEPT !.pc = "done"]
  /\ UNCHANGED <<fs, log, logLock, tasks, run, prev, wfail>>

\* The program is started again on the same input root.
Restart ==
  /\ main.pc = "done" /\ run < MaxRuns
  /\ Cardinality(Discover(fs)) <= MaxTasks
  /\ run' = run + 1
  /\ prev' = fs
  /\ tasks' = NoTasks
  /\ main' = [pc |-> "start", logq |-> <<>>, lpart |-> 0]
  /\ UNCHANGED <<fs, log, logLock, wfail>>

\* ------------------------------------------------------ inputs of the batch
Root1 == Join(SubDir, "1_a.xml")
Root2 == Join(SubDir2, "1_a.xml")
Root3 == Join(SubDir, "1_b.xml")
\* Root texts of different lengths, one with two directives; the part a.xml,
\* when it is there, holds two directives of its own.
TwoDirs == Dir("a.xml") \o Dir("m.xml")
PartTwo == Dir("m.xml") \o <<"k">> \o Dir("m.xml")

\* What each candidate root file can be, and how its output write fails.
RootStates(texts) == {Missing, Unreadable} \cup {File(x) : x \in texts}
Root1States == RootStates({<<"x">>, TwoDirs})
Root2States == RootStates({<<"y", "z">>})
Root3States == RootStates({<<"x">>, Dir("m.xml")})
FailModes == {"no", "create", "write"}

BatchTree(r1, r2, r3, a) ==
  [p \in Paths |-> IF p = Root1 THEN r1 ELSE IF p = Root2 THEN r2
                   ELSE IF p = Root3 THEN r3 ELSE IF p = APath THEN a ELSE Missing]

BatchFail(w1, w2, w3) ==
  [p \in Paths |-> IF p = Root1 THEN w1 ELSE IF p = Root2 THEN w2 ELSE IF p = Root3 THEN w3 ELSE "no"]

ModesOf(r) == IF r.st = "file" THEN FailModes ELSE {"no"}

\* A tree with at most MaxTasks matching files, each readable or not, part
\* a.xml present or not, an empty compiled/, and a failure mode of fs::write
\* for every file that is there.
Init ==
  /\ \E r1 \in Root1States, r2 \in Root2States, r3 \in Root3States, a \in {Missing, File(PartTwo)} :
       /\ Cardinality({i \in 1..3 : <<r1, r2, r3>>[i] # Missing}) <= MaxTasks
       /\ fs = BatchTree(r1, r2, r3, a)
       /\ \E w1 \in ModesOf(r1), w2 \in ModesOf(r2), w3 \in ModesOf(r3) : wfail = BatchFail(w1, w2, w3)
  /\ prev = fs
  /\ log = <<>> /\ logLock = "none"
  /\ tasks = NoTasks
  /\ main = [pc |-> "start", logq |-> <<>>, lpart |-> 0]
  /\ run = 1

Next ==
  \/ Start \/ MainLogBegin \/ MainLogStep \/ CreateDir \/ CreateDirFails
  \/ Walk \/ JoinAll \/ Exit \/ Restart
  \/ ReadStep \/ DirectiveStep \/ ReturnStep \/ LogBeginStep \/ LogEndStep
  \/ \E t \in DOMAIN tasks : WriteCreate(t)
  \/ \E t \in DOMAIN tasks : WriteAll(t)

Spec == Init /\ [][Next]_vars

\* ===================================================== properties, expander
\* The root call of the expander-only specification.
RootTask == tasks[RootPath]
RootText == fs[RootPath].text
Returned1 == RootPath \in DOMAIN tasks /\ RootTask.pc = "write"

\* A text holds a directive iff it holds a directive body.
HasDirective(s) == \E i \in 1..Len(s) : s[i] \in IncBodies

\* The positions where a directive starts, and the path it resolves to from dir.
DirsOf(s) == {i \in 1..Len(s) : IncludeEndAt(s, i) # 0}
TargetAt(dir, s, i) == normalize_include_path(dir, Trim(IncludeRefAt(s, i)))

\* s occurs in text as a contiguous run.
Occurs(s, text) == \E k \in 0..(Len(text) - Len(s)) : SubSeq(text, k + 1, k + Len(s)) = s
IsPrefix(s, text) == Len(s) <= Len(text) /\ SubSeq(text, 1, Len(s)) = s
IsSuffix(s, text) == Len(s) <= Len(text) /\ SubSeq(text, Len(text) - Len(s) + 1, Len(text)) = s

\* The log holds a complete entry of this kind, path and directive.
Logged(who, kind, path, tag) ==
  \E i \in 1..Len(log) :
    log[i] = [who |-> who, kind |-> kind, path |-> path, tag |-> tag, part |-> "nl"]

\* The markers and the wrapper, spelled out.
NotFoundLit(path) == <<"<!", "--", " ", "Include not found:", " ", path, " ", "--", ">">>
ErrorLit(path) == <<"<!", "--", " ", "Error including", " ", path \o ":", " ", ReadError, " ", "--", ">">>
Flattened(text) ==
  CollapseWsFrom(DropNewlines(remove_comments(remove_placeholders(
    remove_comments(remove_placeholders(text))))), 1)

\* A leaf: a file without directives, or a path that cannot be expanded.
IsLeaf(F, q) == F[q].st # "file" \/ ~HasDirective(F[q].text)

\* What the code puts in place of a root directive whose target q is a leaf.
LeafReplacement(F, q) ==
  IF F[q].st = "missing" THEN NotFoundLit(q)
  ELSE IF F[q].st = "unreadable" THEN ErrorLit(q)
  ELSE <<"<![CDATA[", "\n">> \o Flattened(F[q].text) \o <<"\n", "]]", ">">>

RECURSIVE ExpectRoot(_, _, _, _)
\* The root output for a root text c whose directives all point at leaves:
\* c with every directive span replaced, everything else kept.
ExpectRoot(F, dir, c, i) ==
  IF i > Len(c) THEN <<>>
  ELSE IF IncludeEndAt(c, i) = 0 THEN <<c[i]>> \o ExpectRoot(F, dir, c, i + 1)
  ELSE LeafReplacement(F, TargetAt(dir, c, i)) \o ExpectRoot(F, dir, c, IncludeEndAt(c, i) + 1)

AllLeaves(F, dir, c) == \A i \in DirsOf(c) : IsLeaf(F, TargetAt(dir, c, i))

RECURSIVE MissingBelow(_, _, _, _)
\* <<tag, path>> of every directive with a missing target in the expansion
\* tree of file p, invoked for the directive chain cp.
MissingBelow(F, p, cp, fuel) ==
  IF fuel = 0 \/ F[p].st # "file" THEN {}
  ELSE UNION { LET q == TargetAt(Parent(p), F[p].text, i)
               IN IF F[q].st = "missing" THEN {<<cp \o <<i>>, q>>}
                  ELSE MissingBelow(F, q, cp \o <<i>>, fuel - 1)
               : i \in DirsOf(F[p].text) }

\* C1: a root file without include directives expands, as root, to exactly
\* its own text (comments, placeholders and whitespace kept), without error
\* and without a log entry.
C1_NoDirectiveUnchanged ==
  (RootPath \in DOMAIN tasks /\ fs[RootPath].st = "file" /\ ~HasDirective(RootText)) =>
    /\ RootTask.pc \in {"expand", "write"}
    /\ log = <<>>
    /\ RootTask.pc = "write" => RootTask.ret = [ok |-> TRUE, text |-> RootText]

\* C1 witness: a root that holds a comment, a placeholder block, a newline
\* and a whitespace run has been returned unchanged.
C1_Witness ==
  /\ Returned1
  /\ RootText \in {Comment \o PhBlock, PhBlock \o <<SP, NL, SP>>}
  /\ RootTask.ret.text = RootText

\* C2 as stated: every directive with a missing target, at any recursion
\* level, leaves its "Include not found" marker in the final root output and
\* a "Missing include" entry in the log, and the root expansion succeeds.
C2_MarkerAtAnyLevel ==
  Returned1 =>
    /\ RootTask.ret.ok
    /\ \A m \in MissingBelow(fs, RootPath, <<>>, MaxDepth) :
         /\ Occurs(NotFoundLit(m[2]), RootTask.ret.text)
         /\ Logged(RootPath, "Missing include", m[2], m[1])

\* C2 amended: a directive of the root document with a missing target is
\* replaced in place by its marker; a missing target at any level is logged;
\* every root directive is handled (none is left in the output, each has a log
\* entry); a readable root never fails.  A marker put into an included file is
\* stripped with that file's comments and does not reach the root output.
C2_MissingInclude ==
  /\ (RootPath \in DOMAIN tasks /\ fs[RootPath].st = "file") => RootTask.pc # "done"
  /\ Returned1 =>
       LET c == RootText
           out == RootTask.ret.text
           D == DirsOf(c)
           missing == {i \in D : fs[TargetAt(SubDir, c, i)].st = "missing"}
           count(q) == Cardinality({k \in 0..(Len(out) - 9) : SubSeq(out, k + 1, k + 9) = NotFoundLit(q)})
       IN /\ RootTask.ret.ok
          /\ ~HasDirective(out)
          /\ \A i \in D : \E k \in 1..Len(log) : log[k].tag = <<i>> /\ log[k].part = "nl"
          /\ \A m \in MissingBelow(fs, RootPath, <<>>, MaxDepth) :
               Logged(RootPath, "Missing include", m[2], m[1])
          /\ \A i \in missing :
               LET q == TargetAt(SubDir, c, i)
                   e == IncludeEndAt(c, i)
               IN /\ count(q) = Cardinality({j \in missing : TargetAt(SubDir, c, j) = q})
                  /\ (\A j \in D : j >= i) => IsPrefix(SubSeq(c, 1, i - 1) \o NotFoundLit(q), out)
                  /\ (\A j \in D : j <= i) => IsSuffix(NotFoundLit(q) \o SubSeq(c, e + 1, Len(c)), out)
          /\ AllLeaves(fs, SubDir, c) => out = ExpectRoot(fs, SubDir, c, 1)

\* C2 witness: the root has a missing directive and a sibling that was
\* included, and an included file had a missing directive of its own.
C2_Witness ==
  /\ Returned1
  /\ RootText = Dir("a.xml") \o Dir("m.xml")
  /\ fs[APath] = File(PartMixed)
  /\ Logged(RootPath, "Missing include", MPath, <<1, 15>>)
  /\ Logged(RootPath, "Missing include", MPath, <<6>>)
  /\ Logged(RootPath, "Included", APath, <<1>>)

CommentFree(s) ==
  \A i \in 1..Len(s) : ~(i + 1 <= Len(s) /\ s[i] = LT_BANG /\ s[i + 1] = DASHES /\ CommentClose(s, i + 2) # 0)
\* No complete placeholder tag: no "<placeholder ...>" and no "</placeholder>".
TagFree(s) == \A i \in 1..Len(s) : ~(IsPhOpen(s[i]) /\ FirstGt(s, i + 1) # 0) /\ ~IsPhClose(s[i])
OneLine(s) == \A i \in 1..Len(s) : s[i] # NL /\ s[i] # CR
NoWsRun(s) == \A i \in 1..Len(s) : ~(i + 1 <= Len(s) /\ IsWs(s[i]) /\ IsWs(s[i + 1]))

\* C4: root includes A, A is only a directive to B, B has no directives: what
\* of B reaches the root output (the text inside the wrapper) has no line
\* break, no whitespace run, no comment span and no placeholder tag, and the
\* root's own text around the directive is kept as it is.
C4_LeafContentClean ==
  (Returned1 /\ RootText = NestRoot /\ fs[APath] = File(OnlyB) /\ fs[BPath].st = "file") =>
    LET out == RootTask.ret.text
        pre == <<"p">> \o Comment \o <<CDATA_OPEN, NL>>
        post == <<NL, CDATA_END, GT>> \o PhBlock
        inner == SubSeq(out, Len(pre) + 1, Len(out) - Len(post))
    IN /\ IsPrefix(pre, out) /\ IsSuffix(post, out) /\ Len(out) >= Len(pre) + Len(post)
       /\ OneLine(inner) /\ NoWsRun(inner) /\ CommentFree(inner) /\ TagFree(inner)

\* ======================================================== properties, batch
OutA == Join(CompiledDir, "1_a.xml")
Finished == main.pc = "done"
NoWriteFails == \A p \in Paths : wfail[p] = "no"

\* C5: a second run over unchanged sources (no write fails) leaves every file
\* of compiled/ as the first run left it, whatever the interleaving.
C5_SecondRunSameOutput ==
  (run = 2 /\ Finished /\ NoWriteFails) =>
    \A p \in Paths : Parent(p) = CompiledDir => fs[p] = prev[p]

\* C6: with distinct file names, a file whose read and write succeed ends with
\* its expansion as its output and a "Processed" entry; a file whose read or
\* write fails ends with an error entry and no output file; the batch returns
\* success.
C6_FailureIsolation ==
  (run = 1 /\ main.pc \in {"finish", "done", "failed"} /\ tasks # NoTasks
     /\ \A t \in DOMAIN tasks, u \in DOMAIN tasks : t # u => FileName(t) # FileName(u)) =>
    /\ main.pc # "failed"
    /\ \A t \in DOMAIN tasks :
         IF fs[t].st = "file" /\ wfail[t] = "no"
         THEN /\ tasks[t].ret.ok
              /\ fs[OutPath(t)] = File(tasks[t].ret.text)
              /\ Logged(t, "Processed", t, <<>>)
         ELSE /\ Logged(t, "Error processing", t, <<>>) \/ Logged(t, "Error writing", OutPath(t), <<>>)
              /\ ~Logged(t, "Processed", t, <<>>)
              /\ fs[OutPath(t)] = Missing

\* C7: two files with the same name, both expanded and written without
\* failure: the shared output holds the whole expansion of one of them.
C7_CollisionWholeFile ==
  (run = 1 /\ Finished /\ {Root1, Root2} \subseteq DOMAIN tasks
     /\ tasks[Root1].ret.ok /\ tasks[Root2].ret.ok /\ NoWriteFails) =>
    fs[OutA] \in {File(tasks[Root1].ret.text), File(tasks[Root2].ret.text)}

RECURSIVE WholeEntries(_, _)
\* From position i on, the log is a run of entries, each written chunk after
\* chunk without a foreign chunk in between (the last may be unfinished).
WholeEntries(l, i) ==
  IF i > Len(l) THEN TRUE
  ELSE LET parts == Parts(l[i])
       IN /\ l[i].part = parts[1]
          /\ \A k \in 2..Len(parts) :
               i + k - 1 <= Len(l) => l[i + k - 1] = [l[i] EXCEPT !.part = parts[k]]
          /\ WholeEntries(l, i + Len(parts))

\* Who is in the middle of an entry.
MidEntry == {t \in DOMAIN tasks : tasks[t].lpart > 0} \cup (IF main.lpart > 0 THEN {"main"} ELSE {})

\* C8: every log entry (a message line, a section banner) is written in full
\* before another writer's entry begins; at most one writer is inside an
\* entry, and it is the holder of the mutex.
C8_LogEntriesWhole ==
  /\ WholeEntries(log, 1)
  /\ Cardinality(MidEntry) <= 1
  /\ \A w \in MidEntry : logLock = w

\* C8 witness: one task is between the two writes of its entry while another
\* task has an entry to write and waits for the mutex.
C8_Witness ==
  \E t \in DOMAIN tasks, u \in DOMAIN tasks :
    /\ t # u
    /\ tasks[t].lpart = 1 /\ logLock = t
    /\ tasks[u].logq # <<>> /\ tasks[u].lpart = 0
    /\ Len(log) > 4 /\ log[Len(log)].who = t /\ log[Len(log)].part = "text"

\* C9: among the entries of one root file, those for the directives of one
\* invocation of the expander (same chain of enclosing directives) appear in
\* the order of the directives' positions in that text, and nothing of the
\* file follows its "Processed" entry, however other files' entries fall in
\* between.
C9_LogOrder ==
  \A i \in 1..Len(log), j \in 1..Len(log) :
    (i < j /\ log[i].part = "text" /\ log[j].part = "text"
       /\ log[i].who = log[j].who /\ log[i].who # "main") =>
      /\ log[i].kind # "Processed"
      /\ (Len(log[i].tag) = Len(log[j].tag) /\ Len(log[i].tag) > 0
            /\ SubSeq(log[i].tag, 1, Len(log[i].tag) - 1) = SubSeq(log[j].tag, 1, Len(log[j].tag) - 1)) =>
           log[i].tag[Len(log[i].tag)] < log[j].tag[Len(log[j].tag)]

\* C9 witness: a root with two directives, the first to a part with two
\* directives of its own, is processed while another file's entry falls
\* between its entries.
C9_Witness ==
  /\ Logged(Root1, "Missing include", MPath, <<1, 1>>)
  /\ Logged(Root1, "Missing include", MPath, <<1, 7>>)
  /\ Logged(Root1, "Included", APath, <<1>>)
  /\ Logged(Root1, "Missing include", MPath, <<6>>)
  /\ Logged(Root1, "Processed", Root1, <<>>)
  /\ \E i \in 1..Len(log), j \in 1..Len(log), k \in 1..Len(log) :
       /\ i < k /\ k < j
       /\ log[i].who = Root1 /\ log[j].who = Root1 /\ log[k].who = Root3

\* ============================================== properties, include cycles
\* The files a call on p calls in turn: the targets of p's directives that
\* exist and can be read (a target that cannot be read returns at once).
Callees(F, p) ==
  IF F[p].st # "file" THEN {}
  ELSE {q \in {TargetAt(Parent(p), F[p].text, i) : i \in DirsOf(F[p].text)} : F[q].st = "file"}

RECURSIVE CalledWithin(_, _, _)
\* The files called from the files of S in at most n further steps.
CalledWithin(F, S, n) ==
  IF n = 0 THEN S ELSE CalledWithin(F, S \cup UNION {Callees(F, p) : p \in S}, n - 1)

Readable(F) == {p \in Paths : F[p].st = "file"}

\* A call on root reaches a file that calls itself, directly or not.
Cyclic(F, root) ==
  /\ F[root].st = "file"
  /\ \E p \in CalledWithin(F, {root}, Cardinality(Readable(F))) :
       p \in CalledWithin(F, Callees(F, p), Cardinality(Readable(F)))

\* C10: when the files called from the root include each other in a cycle,
\* the root call never returns (no text, no error) and the recursion reaches
\* any depth (here: the depth at which the model stops); when they do not,
\* the root call ends.
C10_CyclesDiverge ==
  /\ [](Cyclic(fs, RootPath) => RootTask.pc = "expand")
  /\ (Cyclic(fs, RootPath) ~> Depth(RootPath) = MaxDepth)
  /\ (~Cyclic(fs, RootPath) ~> (RootTask.pc # "expand" /\ RootTask.logq = <<>>))

\* C10 witness: A includes B, B includes A, and the recursion is MaxDepth deep.
C10_Witness ==
  /\ fs[BPath] = File(Dir("a.xml"))
  /\ Cyclic(fs, RootPath)
  /\ Depth(RootPath) = MaxDepth
  /\ Top(RootPath).path \in {APath, BPath}

====
